---- MODULE Spec2Model ----
(***************************************************************************)
(* Model of crates/common/tedge_utils/src/fs_notify.rs: the WatchDescriptor *)
(* registry, NotifyStream::add_watcher and the event loop of               *)
(* NotifyStream::stream, together with the part of inotify they rely on.   *)
(*                                                                         *)
(* A path is the sequence of its components (std::path::Components): the   *)
(* root directory is the component "/", so <<"/", "d1">> is /d1 and        *)
(* <<"d1">> is the relative path d1.  A string handed to Path::join is     *)
(* given as the component sequence Path::new parses it into.               *)
(***************************************************************************)
EXTENDS Naturals, Sequences, FiniteSets

VARIABLES
    pc,         \* position of the NotifyStream: "start", "building", "failed", "polling",
                \* "yielding", "errored", "ended", "dropped"
    watchers,   \* self.watchers.description: dir path -> (file name -> Vec<Masks>)
    osMask,     \* the inotify instance's watch list: inode -> watch mask ({} = not watched)
    rawlog,     \* everything the inotify event stream has reported so far, in order
    nproc,      \* how many items of rawlog the stream loop has taken
    dirOrder,   \* iteration order of the outer HashMap, fixed once the registry is frozen
    fileOrder,  \* iteration order of each inner HashMap
    pending,    \* what the loop body of the current raw event has still to yield
    yielded,    \* the items the consumer has received, in order
    lastAdd,    \* what the last add_watcher call was given and what it returned
    nAdds,      \* number of add_watcher calls made
    calls,      \* the arguments of the add_watcher calls made, in order
    fdOwners,   \* the values that hold the inotify file descriptor (Arc<FdGuard>)
    input,      \* the triples fs_notify_stream was called with, None without it
    returned,   \* what fs_notify_stream has returned
    end_point,  \* JwtAuthHttpProxy.end_point: Left (uninitialised) or Right with the id
    idRequests, \* number of try_get_internal_id calls made
    ops,        \* the operations called on the proxy, each with what it returned
    published,  \* number of token requests published on c8y/s/uat through mqtt_con.published
    cloud,      \* the token requests Cumulocity has not answered yet
    received,   \* mqtt_con.received: the answers on c8y/s/dat not yet taken, in order
    closed,     \* the channels of mqtt_con that are closed: "published", "received"
    waiting,    \* the request the get_jwt_token call in progress has published, 0 if none
    tokens      \* what the get_jwt_token calls of the retriever have returned, in order

fsVars == <<pc, watchers, osMask, rawlog, nproc, dirOrder, fileOrder, pending, yielded,
            lastAdd, nAdds, calls, fdOwners, input, returned>>
httpVars == <<end_point, idRequests, ops>>
jwtVars == <<published, cloud, received, closed, waiting, tokens>>
proxyVars == <<httpVars, jwtVars>>
vars == <<fsVars, proxyVars>>

----------------------------------------------------------------------------
(* Bounds *)

MaxAdds == 2
MaxRaw == 2
MaxRegAdds == 3
MaxRawE2E == 4
MaxNormAdds == 2
MaxTriples == 2
MaxRawWatchMany == 2
MaxOps == 3
MaxCalls == 3

----------------------------------------------------------------------------
(* enum Masks and its conversions *)

Masks == {"Modified", "Deleted", "Created", "Undefined"}

\* #[derive(PartialOrd, Ord)]: the variants compare in declaration order
MasksInOrder == <<"Modified", "Deleted", "Created", "Undefined">>

\* a conversion with the bits of Created and Modified exchanged
WatchMaskFromSwapped(masks) ==
    CASE masks = "Modified" -> {"CREATE"}
      [] masks = "Deleted" -> {"DELETE"}
      [] masks = "Created" -> {"MODIFY"}
      [] OTHER -> {}

\* impl From<Masks> for WatchMask; a mask is the set of its bits
WatchMaskFrom(masks) ==
    CASE masks = "Modified" -> {"MODIFY"}
      [] masks = "Deleted" -> {"DELETE"}
      [] masks = "Created" -> {"CREATE"}
      [] OTHER -> {}

\* a translation that leaves the is-directory flag out of the comparison
MasksFromIgnoringIsDir(em) ==
    CASE em \ {"ISDIR"} = {"MODIFY"} -> "Modified"
      [] em \ {"ISDIR"} = {"DELETE"} -> "Deleted"
      [] em \ {"ISDIR"} = {"CREATE"} -> "Created"
      [] OTHER -> "Undefined"

\* a translation that looks for the bit of a kind in the mask
MasksFromAnyBit(em) ==
    IF "MODIFY" \in em THEN "Modified"
    ELSE IF "DELETE" \in em THEN "Deleted"
    ELSE IF "CREATE" \in em THEN "Created"
    ELSE "Undefined"

\* impl From<EventMask> for Masks: the match arms are constants, so they
\* compare the whole mask
MasksFrom(em) ==
    CASE em = {"MODIFY"} -> "Modified"
      [] em = {"DELETE"} -> "Deleted"
      [] em = {"CREATE"} -> "Created"
      [] OTHER -> "Undefined"

RECURSIVE pipe_masks_into_watch_mask(_)
pipe_masks_into_watch_mask(masks) ==
    IF masks = <<>> THEN {}
    ELSE WatchMaskFrom(Head(masks)) \cup pipe_masks_into_watch_mask(Tail(masks))

----------------------------------------------------------------------------
(* std::path *)

None == [some |-> FALSE, v |-> <<>>]
Some(x) == [some |-> TRUE, v |-> x]

Last(s) == s[Len(s)]
Front(s) == SubSeq(s, 1, Len(s) - 1)
Range(s) == {s[i] : i \in DOMAIN s}

\* a component that is not valid UTF-8
NonText == "\\xff"

\* Path::join: an absolute argument replaces the path
PathJoin(p, q) == IF q # <<>> /\ Head(q) = "/" THEN q ELSE p \o q

\* Path::parent: None for the empty path and for the root
PathParent(p) ==
    IF p = <<>> \/ Last(p) = "/" THEN None ELSE Some(Front(p))

\* Path::file_name: the last component if it is a normal one
PathFileName(p) ==
    IF p = <<>> \/ Last(p) \in {"/", ".."} THEN None ELSE Some(Last(p))

\* OsStr::to_str
ToStr(name) == IF name = NonText THEN None ELSE Some(name)

ErrNormalising == [ok |-> FALSE, dir |-> <<>>, file |-> ""]

\* normalising that takes the last component for a name whatever it is
normalising_any_last_component(candidate_watch_dir, candidate_file) ==
    LET full_path == PathJoin(candidate_watch_dir, candidate_file)
        parent == PathParent(full_path)
    IN  IF ~parent.some THEN ErrNormalising
        ELSE [ok |-> TRUE, dir |-> parent.v, file |-> Last(full_path)]

\* normalising that keeps the candidate directory instead of the parent
normalising_keeps_watch_dir(candidate_watch_dir, candidate_file) ==
    LET full_path == PathJoin(candidate_watch_dir, candidate_file)
        parent == PathParent(full_path)
        file == IF PathFileName(full_path).some
                THEN ToStr(PathFileName(full_path).v) ELSE None
    IN  IF ~parent.some THEN ErrNormalising
        ELSE IF ~file.some THEN ErrNormalising
        ELSE [ok |-> TRUE, dir |-> candidate_watch_dir, file |-> file.v]

\* normalising that returns the full path as the directory to watch
normalising_keeps_full_path(candidate_watch_dir, candidate_file) ==
    LET full_path == PathJoin(candidate_watch_dir, candidate_file)
        parent == PathParent(full_path)
        file == IF PathFileName(full_path).some
                THEN ToStr(PathFileName(full_path).v) ELSE None
    IN  IF ~parent.some THEN ErrNormalising
        ELSE IF ~file.some THEN ErrNormalising
        ELSE [ok |-> TRUE, dir |-> full_path, file |-> file.v]

normalising_watch_dir_and_file(candidate_watch_dir, candidate_file) ==
    LET full_path == PathJoin(candidate_watch_dir, candidate_file)
        parent == PathParent(full_path)
        file == IF PathFileName(full_path).some
                THEN ToStr(PathFileName(full_path).v) ELSE None
    IN  IF ~parent.some THEN ErrNormalising
        ELSE IF ~file.some THEN ErrNormalising
        ELSE [ok |-> TRUE, dir |-> parent.v, file |-> file.v]

----------------------------------------------------------------------------
(* struct WatchDescriptor *)

EmptyMap == [x \in {} |-> <<>>]

\* an entry that keeps what it had and takes nothing more
PushNothing(file_entry, masks) == file_entry

\* file_entry.contains(mask) / file_entry.push(mask) for each mask in masks
RECURSIVE PushMissing(_, _)
PushMissing(file_entry, masks) ==
    IF masks = <<>> THEN file_entry
    ELSE PushMissing(IF Head(masks) \in Range(file_entry) THEN file_entry
                     ELSE Append(file_entry, Head(masks)),
                     Tail(masks))

\* insert that replaces the entry of the file by the new masks
insert_replaces_entry(description, dir_path, file_name, masks) ==
    LET root_directory_entry ==
            IF dir_path \in DOMAIN description THEN description[dir_path] ELSE EmptyMap
    IN  [d \in DOMAIN description \cup {dir_path} |->
            IF d = dir_path
            THEN [f \in DOMAIN root_directory_entry \cup {file_name} |->
                     IF f = file_name THEN masks ELSE root_directory_entry[f]]
            ELSE description[d]]

insert(description, dir_path, file_name, masks) ==
    LET root_directory_entry ==
            IF dir_path \in DOMAIN description THEN description[dir_path] ELSE EmptyMap
        file_entry ==
            IF file_name \in DOMAIN root_directory_entry
            THEN root_directory_entry[file_name] ELSE masks
        new_entry ==
            [f \in DOMAIN root_directory_entry \cup {file_name} |->
                IF f = file_name THEN PushMissing(file_entry, masks)
                ELSE root_directory_entry[f]]
    IN  [d \in DOMAIN description \cup {dir_path} |->
            IF d = dir_path THEN new_entry ELSE description[d]]

\* Vec::from_iter over a BTreeSet: ascending, each element once
FromBTreeSet(set) == SelectSeq(MasksInOrder, LAMBDA m : m \in set)

\* the union taken over every directory of the registry
get_mask_set_all_directories(description, dir_path) ==
    IF dir_path \notin DOMAIN description THEN None
    ELSE Some(FromBTreeSet(UNION {UNION {Range(description[d][f]) : f \in DOMAIN description[d]} :
                                    d \in DOMAIN description}))

\* a lookup that has nothing to return for a directory without kinds
get_mask_set_none_if_empty(description, dir_path) ==
    IF dir_path \notin DOMAIN description THEN None
    ELSE IF UNION {Range(description[dir_path][f]) : f \in DOMAIN description[dir_path]} = {}
    THEN None
    ELSE Some(FromBTreeSet(UNION {Range(description[dir_path][f]) :
                                    f \in DOMAIN description[dir_path]}))

get_mask_set_for_directory(description, dir_path) ==
    IF dir_path \notin DOMAIN description THEN None
    ELSE Some(FromBTreeSet(UNION {Range(description[dir_path][f]) :
                                    f \in DOMAIN description[dir_path]}))

----------------------------------------------------------------------------
(* The file system and the inotify instance *)

Inodes == {"ino_root", "ino_d1", "ino_d2", "ino_sub"}
NoInode == "enoent"

\* the directory tree the paths are resolved in: /d1, /d1/sub and /d2
Child(ino, name) ==
    CASE ino = "ino_root" /\ name = "d1" -> "ino_d1"
      [] ino = "ino_root" /\ name = "d2" -> "ino_d2"
      [] ino = "ino_d1" /\ name = "sub" -> "ino_sub"
      [] ino = "ino_sub" /\ name = ".." -> "ino_d1"
      [] ino \in {"ino_d1", "ino_d2", "ino_root"} /\ name = ".." -> "ino_root"
      [] OTHER -> NoInode

RECURSIVE Walk(_, _)
Walk(ino, comps) ==
    IF comps = <<>> \/ ino = NoInode THEN ino
    ELSE Walk(Child(ino, Head(comps)), Tail(comps))

\* path resolution by the kernel; a relative path is resolved from the
\* working directory, here /
Resolve(path) ==
    IF path = <<>> THEN NoInode
    ELSE IF Head(path) = "/" THEN Walk("ino_root", Tail(path))
    ELSE Walk("ino_root", path)

\* Inotify::add_watch without IN_MASK_ADD: the mask of an inode that is
\* already watched is replaced; ENOENT and EINVAL leave the watch list alone
add_watch(watches, path, watch_mask) ==
    IF Resolve(path) = NoInode \/ watch_mask = {} THEN watches
    ELSE [watches EXCEPT ![Resolve(path)] = watch_mask]

----------------------------------------------------------------------------
(* JwtAuthHttpProxy: the end point *)

\* either::Either<C8yEndPointUnInitialised, C8yEndPoint>
Left == [right |-> FALSE, c8y_internal_id |-> ""]
Right(c8y_internal_id) == [right |-> TRUE, c8y_internal_id |-> c8y_internal_id]

\* a host name is the sequence of its labels
C8yHost == <<"t1", "c8y", "io">>
InternalIds == {"123", "456"}

\* JwtAuthHttpProxy::new: the end point is Left(C8yEndPointUnInitialised)
JwtAuthHttpProxy_new ==
    /\ end_point = Left
    /\ idRequests = 0
    /\ ops = <<>>

\* C8yMqttJwtTokenRetriever::new over a connection just made: nothing
\* published, nothing received, both channels open
C8yMqttJwtTokenRetriever_new ==
    /\ published = 0
    /\ cloud = {}
    /\ received = <<>>
    /\ closed = {}
    /\ waiting = 0
    /\ tokens = <<>>

----------------------------------------------------------------------------
(* NotifyStream *)

Init ==
    /\ pc = "building"
    /\ watchers = EmptyMap
    /\ osMask = [i \in Inodes |-> {}]
    /\ rawlog = <<>>
    /\ nproc = 0
    /\ dirOrder = <<>>
    /\ fileOrder = EmptyMap
    /\ pending = <<>>
    /\ yielded = <<>>
    /\ lastAdd = [ret |-> "none", dir |-> <<>>]
    /\ nAdds = 0
    /\ calls = <<>>
    /\ fdOwners = {"inotify"}
    /\ input = None
    /\ returned = "none"
    /\ JwtAuthHttpProxy_new
    /\ C8yMqttJwtTokenRetriever_new

\* add_watcher on a NotifyStream that stream() has only borrowed
add_watcher_after_stream(dir_path, file, masks) ==
    LET n == normalising_watch_dir_and_file(dir_path, file)
        inserted == insert(watchers, n.dir, n.file, masks)
        set == get_mask_set_for_directory(inserted, n.dir)
    IN  /\ pc \in {"building", "polling"}
        /\ nAdds' = nAdds + 1
        /\ calls' = Append(calls, <<dir_path, file, masks>>)
        /\ UNCHANGED <<pc, rawlog, nproc, dirOrder, fileOrder, pending, yielded, fdOwners,
                       input, proxyVars, returned>>
        /\ IF ~n.ok
           THEN /\ lastAdd' = [ret |-> "ErrorNormalisingWatcher", dir |-> <<>>]
                /\ UNCHANGED <<watchers, osMask>>
           ELSE /\ watchers' = inserted
                /\ osMask' = add_watch(osMask, n.dir, pipe_masks_into_watch_mask(set.v))
                /\ lastAdd' = [ret |-> "Ok", dir |-> n.dir]

\* add_watcher that returns the error of a failed add_watch before it
\* touches the registry
add_watcher_strict(dir_path, file, masks) ==
    LET n == normalising_watch_dir_and_file(dir_path, file)
        inserted == insert(watchers, n.dir, n.file, masks)
        set == get_mask_set_for_directory(inserted, n.dir)
        failed == Resolve(n.dir) = NoInode \/ pipe_masks_into_watch_mask(set.v) = {}
    IN  /\ pc = "building"
        /\ nAdds' = nAdds + 1
        /\ calls' = Append(calls, <<dir_path, file, masks>>)
        /\ UNCHANGED <<pc, rawlog, nproc, dirOrder, fileOrder, pending, yielded, fdOwners,
                       input, proxyVars, returned>>
        /\ IF ~n.ok
           THEN /\ lastAdd' = [ret |-> "ErrorNormalisingWatcher", dir |-> <<>>]
                /\ UNCHANGED <<watchers, osMask>>
           ELSE IF failed
           THEN /\ lastAdd' = [ret |-> "FromIOError", dir |-> n.dir]
                /\ UNCHANGED <<watchers, osMask>>
           ELSE /\ watchers' = inserted
                /\ osMask' = add_watch(osMask, n.dir, pipe_masks_into_watch_mask(set.v))
                /\ lastAdd' = [ret |-> "Ok", dir |-> n.dir]

\* NotifyStream::add_watcher(&mut self, dir_path, file, masks)
add_watcher(dir_path, file, masks) ==
    LET n == normalising_watch_dir_and_file(dir_path, file)
        inserted == insert(watchers, n.dir, n.file, masks)
        set == get_mask_set_for_directory(inserted, n.dir)
    IN  /\ pc = "building"
        /\ nAdds' = nAdds + 1
        /\ calls' = Append(calls, <<dir_path, file, masks>>)
        /\ UNCHANGED <<rawlog, nproc, dirOrder, fileOrder, pending, yielded, fdOwners, input,
                       proxyVars,
                       returned>>
        /\ IF ~n.ok
           THEN /\ lastAdd' = [ret |-> "ErrorNormalisingWatcher", dir |-> <<>>]
                /\ UNCHANGED <<pc, watchers, osMask>>
           ELSE IF watchers = EmptyMap
           THEN /\ osMask' = add_watch(osMask, n.dir, pipe_masks_into_watch_mask(masks))
                /\ watchers' = insert(EmptyMap, n.dir, n.file, masks)
                /\ lastAdd' = [ret |-> "Ok", dir |-> n.dir]
                /\ UNCHANGED pc
           ELSE IF ~set.some
           THEN \* .unwrap() on None
                /\ pc' = "panicked"
                /\ watchers' = inserted
                /\ lastAdd' = [ret |-> "panic", dir |-> n.dir]
                /\ UNCHANGED osMask
           ELSE /\ watchers' = inserted
                /\ osMask' = add_watch(osMask, n.dir, pipe_masks_into_watch_mask(set.v))
                /\ lastAdd' = [ret |-> "Ok", dir |-> n.dir]
                /\ UNCHANGED pc

Perms(S) == {s \in [1..Cardinality(S) -> S] : Range(s) = S}

IOError(raw) == [ok |-> FALSE, path |-> <<>>, mask |-> "", err |-> "FromIOError", raw |-> raw]
StreamError(raw) ==
    [ok |-> FALSE, path |-> <<>>, mask |-> "", err |-> "ErrorCreatingStream", raw |-> raw]
Item(path, mask, raw) == [ok |-> TRUE, path |-> path, mask |-> mask, err |-> "", raw |-> raw]

\* NotifyStream::stream(self): the registry is moved into the generator;
\* self.inotify.event_stream(self.buffer)? either gives the raw event
\* stream or ends the generator with its error
stream(event_stream_ok) ==
    /\ pc = "building"
    /\ \E dord \in Perms(DOMAIN watchers) :
       \E ford \in [DOMAIN watchers -> UNION {Perms(DOMAIN watchers[d]) : d \in DOMAIN watchers}] :
          /\ \A d \in DOMAIN watchers : ford[d] \in Perms(DOMAIN watchers[d])
          /\ dirOrder' = dord
          /\ fileOrder' = ford
    /\ IF event_stream_ok
       THEN pc' = "polling" /\ pending' = <<>>
       ELSE pc' = "yielding" /\ pending' = <<IOError(0)>>
    /\ fdOwners' = IF event_stream_ok THEN fdOwners \cup {"notify_service"} ELSE fdOwners
    /\ returned' = IF input.some THEN "Ok" ELSE returned
    /\ UNCHANGED <<watchers, osMask, rawlog, nproc, yielded, lastAdd, nAdds, calls, input,
                   proxyVars>>

\* the loop without the comparison of the file names
RECURSIVE FlagYieldsAnyName(_, _, _, _, _, _)
FlagYieldsAnyName(dir_path, file_name, flags, notify_file_name, event_mask, raw) ==
    IF flags = <<>> THEN <<>>
    ELSE (IF event_mask = Head(flags)
          THEN <<Item(PathJoin(dir_path, <<notify_file_name>>), event_mask, raw)>>
          ELSE <<>>)
         \o FlagYieldsAnyName(dir_path, file_name, Tail(flags), notify_file_name, event_mask, raw)

\* the loop without the comparison of the event's kind with the flag
RECURSIVE FlagYieldsAnyKind(_, _, _, _, _, _)
FlagYieldsAnyKind(dir_path, file_name, flags, notify_file_name, event_mask, raw) ==
    IF flags = <<>> THEN <<>>
    ELSE (IF file_name = notify_file_name
          THEN <<Item(PathJoin(dir_path, <<file_name>>), event_mask, raw)>>
          ELSE IF file_name = "*"
          THEN <<Item(PathJoin(dir_path, <<notify_file_name>>), event_mask, raw)>>
          ELSE <<>>)
         \o FlagYieldsAnyKind(dir_path, file_name, Tail(flags), notify_file_name, event_mask, raw)

\* the loop without the wildcard branch
RECURSIVE FlagYieldsNoWildcard(_, _, _, _, _, _)
FlagYieldsNoWildcard(dir_path, file_name, flags, notify_file_name, event_mask, raw) ==
    IF flags = <<>> THEN <<>>
    ELSE (IF file_name = notify_file_name /\ event_mask = Head(flags)
          THEN <<Item(PathJoin(dir_path, <<file_name>>), event_mask, raw)>>
          ELSE <<>>)
         \o FlagYieldsNoWildcard(dir_path, file_name, Tail(flags), notify_file_name, event_mask,
                                 raw)

\* for flag in flags { ... }
RECURSIVE FlagYields(_, _, _, _, _, _)
FlagYields(dir_path, file_name, flags, notify_file_name, event_mask, raw) ==
    IF flags = <<>> THEN <<>>
    ELSE (IF file_name = notify_file_name /\ event_mask = Head(flags)
          THEN <<Item(PathJoin(dir_path, <<file_name>>), event_mask, raw)>>
          ELSE IF file_name = "*" /\ event_mask = Head(flags)
          THEN <<Item(PathJoin(dir_path, <<notify_file_name>>), event_mask, raw)>>
          ELSE <<>>)
         \o FlagYields(dir_path, file_name, Tail(flags), notify_file_name, event_mask, raw)

\* for (file_name, flags) in key { ... }
RECURSIVE FileYields(_, _, _, _, _)
FileYields(dir_path, files, notify_file_name, event_mask, raw) ==
    IF files = <<>> THEN <<>>
    ELSE FlagYields(dir_path, Head(files), watchers[dir_path][Head(files)],
                    notify_file_name, event_mask, raw)
         \o FileYields(dir_path, Tail(files), notify_file_name, event_mask, raw)

\* an outer loop that stops after the first directory
DirYieldsFirstDir(dirs, notify_file_name, event_mask, raw) ==
    IF dirs = <<>> THEN <<>>
    ELSE FileYields(Head(dirs), fileOrder[Head(dirs)], notify_file_name, event_mask, raw)

\* for (dir_path, key) in &self.watchers.description { ... }
RECURSIVE DirYields(_, _, _, _)
DirYields(dirs, notify_file_name, event_mask, raw) ==
    IF dirs = <<>> THEN <<>>
    ELSE FileYields(Head(dirs), fileOrder[Head(dirs)], notify_file_name, event_mask, raw)
         \o DirYields(Tail(dirs), notify_file_name, event_mask, raw)

\* a loop body that skips an event whose name is not text
LoopBodySkipsNonText(event_or_error, raw) ==
    IF event_or_error.err THEN <<IOError(raw)>>
    ELSE IF ~event_or_error.name.some THEN <<>>
    ELSE IF ~ToStr(event_or_error.name.v).some THEN <<>>
    ELSE DirYields(dirOrder, event_or_error.name.v, MasksFrom(event_or_error.mask), raw)

\* a loop body for which an event without a name is an error
LoopBodyNamelessFatal(event_or_error, raw) ==
    IF event_or_error.err THEN <<IOError(raw)>>
    ELSE IF ~event_or_error.name.some THEN <<StreamError(raw)>>
    ELSE IF ~ToStr(event_or_error.name.v).some THEN <<StreamError(raw)>>
    ELSE DirYields(dirOrder, event_or_error.name.v, MasksFrom(event_or_error.mask), raw)

\* what the body of the while loop yields for one item of the raw stream
LoopBody(event_or_error, raw) ==
    IF event_or_error.err THEN <<IOError(raw)>>
    ELSE IF ~event_or_error.name.some THEN <<>>
    ELSE IF ~ToStr(event_or_error.name.v).some THEN <<StreamError(raw)>>
    ELSE DirYields(dirOrder, event_or_error.name.v, MasksFrom(event_or_error.mask), raw)

\* a loop that takes the newest raw item first
ProcessNewestRaw ==
    /\ pc = "polling"
    /\ nproc < Len(rawlog)
    /\ nproc' = nproc + 1
    /\ pending' = LoopBody(rawlog[Len(rawlog) - nproc], Len(rawlog) - nproc)
    /\ pc' = IF pending' = <<>> THEN "polling" ELSE "yielding"
    /\ UNCHANGED <<watchers, osMask, rawlog, dirOrder, fileOrder, yielded, lastAdd, nAdds,
                   calls, fdOwners, input, proxyVars, returned>>

\* notify_service.next().await returns the next raw item and the loop body
\* runs up to its first yield
ProcessRaw ==
    /\ pc = "polling"
    /\ nproc < Len(rawlog)
    /\ nproc' = nproc + 1
    /\ pending' = LoopBody(rawlog[nproc + 1], nproc + 1)
    /\ pc' = IF pending' = <<>> THEN "polling" ELSE "yielding"
    /\ UNCHANGED <<watchers, osMask, rawlog, dirOrder, fileOrder, yielded, lastAdd, nAdds,
                   calls, fdOwners, input, proxyVars, returned>>

\* a stream that goes on polling after it has yielded an error
YieldKeepsPolling ==
    /\ pc = "yielding"
    /\ yielded' = Append(yielded, Head(pending))
    /\ pending' = Tail(pending)
    /\ pc' = IF Tail(pending) = <<>> THEN "polling" ELSE "yielding"
    /\ UNCHANGED <<watchers, osMask, rawlog, nproc, dirOrder, fileOrder, lastAdd, nAdds,
                   calls, fdOwners, input, proxyVars, returned>>

\* the consumer receives the item of the current yield; after an error
\* item the generator only has its return left
Yield ==
    /\ pc = "yielding"
    /\ yielded' = Append(yielded, Head(pending))
    /\ IF ~Head(pending).ok
       THEN pc' = "errored" /\ pending' = <<>>
       ELSE /\ pending' = Tail(pending)
            /\ pc' = IF Tail(pending) = <<>> THEN "polling" ELSE "yielding"
    /\ UNCHANGED <<watchers, osMask, rawlog, nproc, dirOrder, fileOrder, lastAdd, nAdds,
                   calls, fdOwners, input, proxyVars, returned>>

\* a return that drops the raw event stream and keeps the NotifyStream
FinishKeepsInotify ==
    /\ pc = "errored"
    /\ pc' = "ended"
    /\ fdOwners' = fdOwners \ {"notify_service"}
    /\ UNCHANGED <<watchers, osMask, rawlog, nproc, dirOrder, fileOrder, pending, yielded,
                   lastAdd, nAdds, calls, input, proxyVars, returned>>

\* the consumer polls after the error item: the generator returns, which
\* drops notify_service and the NotifyStream it was given, and next() is None
Finish ==
    /\ pc = "errored"
    /\ pc' = "ended"
    /\ fdOwners' = {}
    /\ UNCHANGED <<watchers, osMask, rawlog, nproc, dirOrder, fileOrder, pending, yielded,
                   lastAdd, nAdds, calls, input, proxyVars, returned>>

\* the consumer drops the stream, and with it the generator and all it owns
Drop ==
    /\ pc \in {"polling", "yielding", "errored", "ended"}
    /\ pc' = "dropped"
    /\ pending' = <<>>
    /\ fdOwners' = {}
    /\ UNCHANGED <<watchers, osMask, rawlog, nproc, dirOrder, fileOrder, yielded,
                   lastAdd, nAdds, calls, input, proxyVars, returned>>

\* NotifyStream::try_default(), called by fs_notify_stream: Inotify::init()
\* gives the session or the error that fs_notify_stream returns
try_default(init_ok) ==
    /\ pc = "start"
    /\ IF init_ok
       THEN pc' = "building" /\ fdOwners' = {"inotify"} /\ UNCHANGED returned
       ELSE pc' = "failed" /\ fdOwners' = {} /\ returned' = "FromIOError"
    /\ UNCHANGED <<watchers, osMask, rawlog, nproc, dirOrder, fileOrder, pending, yielded,
                   lastAdd, nAdds, calls, input, proxyVars>>

\* fs_notify_stream: the body of the for loop, for the next triple
fs_notify_stream_add ==
    /\ input.some
    /\ lastAdd.ret # "ErrorNormalisingWatcher"
    /\ nAdds < Len(input.v)
    /\ add_watcher(input.v[nAdds + 1][1], input.v[nAdds + 1][2], input.v[nAdds + 1][3])

\* a loop that goes on after a triple whose add_watcher failed
fs_notify_stream_skips_err ==
    /\ pc = "building"
    /\ input.some
    /\ lastAdd.ret = "ErrorNormalisingWatcher"
    /\ lastAdd' = [ret |-> "skipped", dir |-> <<>>]
    /\ UNCHANGED <<pc, watchers, osMask, rawlog, nproc, dirOrder, fileOrder, pending, yielded,
                   nAdds, calls, fdOwners, input, proxyVars, returned>>

\* fs_notify_stream: the ? after add_watcher returns its error; the
\* NotifyStream goes out of scope
fs_notify_stream_err ==
    /\ pc = "building"
    /\ input.some
    /\ lastAdd.ret = "ErrorNormalisingWatcher"
    /\ pc' = "failed"
    /\ returned' = lastAdd.ret
    /\ fdOwners' = {}
    /\ UNCHANGED <<watchers, osMask, rawlog, nproc, dirOrder, fileOrder, pending, yielded,
                   lastAdd, nAdds, calls, input, proxyVars>>

\* fs_notify_stream: Ok(fs_notification_service.stream()) after the loop
fs_notify_stream_ok ==
    /\ input.some
    /\ lastAdd.ret # "ErrorNormalisingWatcher"
    /\ nAdds = Len(input.v)
    /\ \E event_stream_ok \in BOOLEAN : stream(event_stream_ok)

----------------------------------------------------------------------------
(* What inotify reports *)

RawEvent(wd, mask, name) == [err |-> FALSE, wd |-> wd, mask |-> mask, name |-> name]
RawError == [err |-> TRUE, wd |-> NoInode, mask |-> {}, name |-> None]

\* the kernel reports a change of an entry of a watched directory if its
\* kind is in the directory's watch mask (IN_ISDIR is added for a
\* subdirectory), and IN_IGNORED without a name for the watch itself
Reportable(ev) ==
    /\ ev.wd \in Inodes
    /\ osMask[ev.wd] # {}
    /\ \/ /\ ev.name.some
          /\ \E bit \in osMask[ev.wd] : ev.mask \in {{bit}, {bit, "ISDIR"}}
       \/ /\ ~ev.name.some
          /\ ev.mask = {"IGNORED"}

OsReport(ev) ==
    /\ pc \in {"building", "polling", "yielding"}
    /\ Reportable(ev)
    /\ rawlog' = Append(rawlog, ev)
    /\ UNCHANGED <<pc, watchers, osMask, nproc, dirOrder, fileOrder, pending, yielded,
                   lastAdd, nAdds, calls, fdOwners, input, proxyVars, returned>>

\* the raw event stream fails with an I/O error
OsError ==
    /\ pc \in {"polling", "yielding"}
    /\ rawlog' = Append(rawlog, RawError)
    /\ UNCHANGED <<pc, watchers, osMask, nproc, dirOrder, fileOrder, pending, yielded,
                   lastAdd, nAdds, calls, fdOwners, input, proxyVars, returned>>

----------------------------------------------------------------------------
(* Specification *)

D1 == <<"/", "d1">>
D2 == <<"/", "d2">>
\* another spelling of /d1
D1Alias == <<"/", "d1", "sub", "..">>
\* a directory that does not exist
Missing == <<"/", "nx">>

Created == <<"Created">>
CreatedModified == <<"Created", "Modified">>

RawEventsOf(wd, names) ==
    {RawEvent(wd, {bit}, Some(n)) : bit \in {"CREATE", "MODIFY", "DELETE"}, n \in names}

\* The stream under two directories, exact and wildcard targets, and every
\* kind of raw item
Dirs == {D1, D2}
Files == {<<"a">>, <<"*">>}
MaskLists == {Created, CreatedModified, <<"Created", "Created">>, <<"Undefined">>}
RawEvents ==
    UNION {RawEventsOf(wd, {"a", "b"})
           \cup {RawEvent(wd, {"CREATE", "ISDIR"}, Some("a")),
                 RawEvent(wd, {"CREATE"}, Some(NonText)),
                 RawEvent(wd, {"IGNORED"}, None)} : wd \in {"ino_d1", "ino_d2"}}

Next ==
    \/ /\ nAdds < MaxAdds
       /\ \E d \in Dirs, f \in Files, m \in MaskLists : add_watcher(d, f, m)
    \/ \E ok \in BOOLEAN : stream(ok)
    \/ ProcessRaw
    \/ Yield
    \/ Finish
    \/ /\ Len(rawlog) < MaxRaw
       /\ \E ev \in RawEvents : OsReport(ev)
    \/ /\ Len(rawlog) < MaxRaw
       /\ OsError

Spec == Init /\ [][Next]_vars

\* The consumer keeps polling: the generator is resumed whenever it can
\* take a raw item or hand over an item
LiveAdds == {<<D1, <<"a">>, Created>>, <<D1, <<"*">>, CreatedModified>>, <<D2, <<"a">>, Created>>}
LiveRawEvents ==
    {RawEvent("ino_d1", {"CREATE"}, Some("a")), RawEvent("ino_d1", {"MODIFY"}, Some("b")),
     RawEvent("ino_d2", {"CREATE"}, Some("a")), RawEvent("ino_d1", {"CREATE"}, Some(NonText)),
     RawEvent("ino_d1", {"IGNORED"}, None)}

NextLive ==
    \/ /\ nAdds < MaxAdds
       /\ \E a \in LiveAdds : add_watcher(a[1], a[2], a[3])
    \/ \E ok \in BOOLEAN : stream(ok)
    \/ ProcessRaw
    \/ Yield
    \/ Finish
    \/ /\ Len(rawlog) < MaxRaw
       /\ \E ev \in LiveRawEvents : OsReport(ev)
    \/ /\ Len(rawlog) < MaxRaw
       /\ OsError

SpecLive == Init /\ [][NextLive]_vars /\ WF_vars(ProcessRaw) /\ WF_vars(Yield)

\* Building the registry: every spelling of a directory, every kind list
RegDirs == {D1, D2, D1Alias, Missing}
RegFiles == {<<"a">>, <<"b">>}
RegMaskLists == {Created, CreatedModified, <<"Created", "Created">>, <<"Deleted">>,
                 <<"Undefined">>}

NextRegistry ==
    /\ nAdds < MaxRegAdds
    /\ \E d \in RegDirs, f \in RegFiles, m \in RegMaskLists : add_watcher(d, f, m)

SpecRegistry == Init /\ [][NextRegistry]_vars

\* Normalisation: the root, relative and empty directories, a directory
\* whose name is not text, and file specifications with separators
Root == <<"/">>
Relative == <<"d1">>
NormDirs == {Root, D1, Relative, <<>>, <<"/", NonText>>}
NormFiles == {<<>>, <<"a">>, <<"sub", "a">>, <<"sub", "*">>, <<"nx", "a">>, <<"..">>,
              <<"/", "d2", "a">>}
NormMaskLists == {Created, CreatedModified, <<>>}

NextNormalise ==
    /\ nAdds < MaxNormAdds
    /\ \E d \in NormDirs, f \in NormFiles, m \in NormMaskLists : add_watcher(d, f, m)

SpecNormalise == Init /\ [][NextNormalise]_vars

\* fs_notify_stream over every list of triples, with a directory watched
\* for one name and for every name, and two triples that do not normalise
WatchManyTriples ==
    {<<D1, <<"a">>, Created>>, <<D1, <<"*">>, CreatedModified>>, <<D2, <<"a">>, Created>>,
     <<Root, <<>>, Created>>, <<D1, <<"..">>, Created>>}

RECURSIVE SeqsUpTo(_, _)
SeqsUpTo(S, n) ==
    IF n = 0 THEN {<<>>}
    ELSE SeqsUpTo(S, n - 1) \cup {Append(q, x) : q \in SeqsUpTo(S, n - 1), x \in S}

WatchManyInputs == SeqsUpTo(WatchManyTriples, MaxTriples)

WatchManyRawEvents ==
    {RawEvent("ino_d1", {"CREATE"}, Some("a")), RawEvent("ino_d1", {"MODIFY"}, Some("b")),
     RawEvent("ino_d1", {"CREATE"}, Some(NonText))}

InitWatchMany ==
    /\ pc = "start"
    /\ watchers = EmptyMap
    /\ osMask = [i \in Inodes |-> {}]
    /\ rawlog = <<>>
    /\ nproc = 0
    /\ dirOrder = <<>>
    /\ fileOrder = EmptyMap
    /\ pending = <<>>
    /\ yielded = <<>>
    /\ lastAdd = [ret |-> "none", dir |-> <<>>]
    /\ nAdds = 0
    /\ calls = <<>>
    /\ fdOwners = {}
    /\ input \in {Some(i) : i \in WatchManyInputs}
    /\ returned = "none"
    /\ JwtAuthHttpProxy_new
    /\ C8yMqttJwtTokenRetriever_new

NextWatchMany ==
    \/ \E init_ok \in BOOLEAN : try_default(init_ok)
    \/ fs_notify_stream_add
    \/ fs_notify_stream_err
    \/ fs_notify_stream_ok
    \/ ProcessRaw
    \/ Yield
    \/ Finish
    \/ Drop
    \/ /\ Len(rawlog) < MaxRawWatchMany
       /\ \E ev \in WatchManyRawEvents : OsReport(ev)
    \/ /\ Len(rawlog) < MaxRawWatchMany
       /\ OsError

SpecWatchMany == InitWatchMany /\ [][NextWatchMany]_vars

\* Two known files watched in one directory (test_multiple_known_files_watched)
E2EAdds == {<<D1, <<"a">>, Created>>, <<D1, <<"b">>, CreatedModified>>}
E2ERawEvents ==
    {RawEvent("ino_d1", {bit}, Some(n)) : bit \in {"CREATE", "MODIFY"}, n \in {"a", "b"}}

NextE2E ==
    \/ /\ nAdds < MaxAdds
       /\ \E a \in E2EAdds : add_watcher(a[1], a[2], a[3])
    \/ stream(TRUE)
    \/ ProcessRaw
    \/ Yield
    \/ /\ Len(rawlog) < MaxRawE2E
       /\ \E ev \in E2ERawEvents : OsReport(ev)

SpecE2E == Init /\ [][NextE2E]_vars

----------------------------------------------------------------------------
(* crates/core/c8y_api/src/http_proxy.rs: JwtAuthHttpProxy *)

ResultOk(v) == [ok |-> TRUE, v |-> v, err |-> ""]
ResultErr(e) == [ok |-> FALSE, v |-> "", err |-> e]

\* what the token retriever and the HTTP server answer during one operation:
\* the token requests of the operation itself, of try_get_internal_id and of
\* send_event_internal, the internal id request, and the other requests
Envs ==
    [jwt_first : BOOLEAN, jwt_init : BOOLEAN,
     id : {ResultErr("HttpError")} \cup {ResultOk(i) : i \in InternalIds},
     jwt_send : BOOLEAN, http_event : BOOLEAN, http_upload : BOOLEAN]

\* try_get_internal_id: a token, then GET /identity/externalIds/c8y_Serial/<id>
try_get_internal_id(env) ==
    IF ~env.jwt_init THEN ResultErr("TokenError")
    ELSE env.id

\* init: the result, the end point afterwards, whether the internal id was
\* asked for and whether the request succeeded
init(ep, env) ==
    IF ~ep.right
    THEN IF try_get_internal_id(env).ok
         THEN [ok |-> TRUE, err |-> "", ep |-> Right(try_get_internal_id(env).v),
               requested |-> TRUE, answered |-> TRUE]
         ELSE [ok |-> FALSE, err |-> "FailedToRetrieveC8yInternalId", ep |-> ep,
               requested |-> TRUE, answered |-> FALSE]
    ELSE [ok |-> TRUE, err |-> "", ep |-> ep, requested |-> FALSE, answered |-> FALSE]

\* get_c8y_end_point that initialises again whatever the end point is
get_c8y_end_point_reinit(ep, env) ==
    IF try_get_internal_id(env).ok
    THEN [ok |-> TRUE, err |-> "", ep |-> Right(try_get_internal_id(env).v),
          requested |-> TRUE, answered |-> TRUE]
    ELSE [ok |-> FALSE, err |-> "FailedToRetrieveC8yInternalId", ep |-> ep,
          requested |-> TRUE, answered |-> FALSE]

get_c8y_end_point(ep, env) ==
    IF ep.right
    THEN [ok |-> TRUE, err |-> "", ep |-> ep, requested |-> FALSE, answered |-> FALSE]
    ELSE init(ep, env)

\* send_event_internal: a token, then POST /event/events/
send_event_internal(env) ==
    IF ~env.jwt_send THEN ResultErr("TokenError")
    ELSE IF ~env.http_event THEN ResultErr("HttpError")
    ELSE ResultOk("event_id")

\* the operation has returned: its result is logged, the end point and the
\* count of id requests are what get_c8y_end_point left
Returns(op, outcome, g) ==
    /\ ops' = Append(ops, [op |-> op, ret |-> IF outcome.ok THEN "Ok" ELSE outcome.err,
                           before |-> end_point, requested |-> g.requested,
                           answered |-> g.answered])
    /\ end_point' = g.ep
    /\ idRequests' = idRequests + (IF g.requested THEN 1 ELSE 0)
    /\ UNCHANGED <<fsVars, jwtVars>>

\* get_c8y_end_point was not reached
NotReached ==
    [ok |-> TRUE, err |-> "", ep |-> end_point, requested |-> FALSE, answered |-> FALSE]

Panicked == ops # <<>> /\ ops[Len(ops)].ret = "panic"

\* the proxy is there to be called; the log of operations is kept to MaxOps
Callable == ~Panicked /\ Len(ops) < MaxOps

get_jwt_token(env) ==
    /\ Callable
    /\ Returns("get_jwt_token",
               IF env.jwt_first THEN ResultOk("token") ELSE ResultErr("TokenError"),
               NotReached)

send_event(env) ==
    LET g == get_c8y_end_point(end_point, env)
    IN  /\ Callable
        /\ Returns("send_event",
                   IF ~g.ok THEN ResultErr(g.err) ELSE send_event_internal(env), g)

send_software_list_http(env) ==
    LET g == get_c8y_end_point(end_point, env)
    IN  /\ Callable
        /\ Returns("send_software_list_http",
                   IF ~g.ok THEN ResultErr(g.err)
                   ELSE IF ~env.jwt_send THEN ResultErr("TokenError")
                   ELSE IF ~env.http_upload THEN ResultErr("HttpError")
                   ELSE ResultOk(""), g)

\* upload_log_binary: the token first, then the end point, create_log_event
\* (the end point again, initialised by then), the event and the upload
upload_log_binary(env) ==
    LET g == get_c8y_end_point(end_point, env)
    IN  /\ Callable
        /\ IF ~env.jwt_first
           THEN Returns("upload_log_binary", ResultErr("TokenError"), NotReached)
           ELSE Returns("upload_log_binary",
                        IF ~g.ok THEN ResultErr(g.err)
                        ELSE IF ~get_c8y_end_point(g.ep, env).ok
                        THEN ResultErr(get_c8y_end_point(g.ep, env).err)
                        ELSE IF ~send_event_internal(env).ok THEN send_event_internal(env)
                        ELSE IF ~env.http_upload THEN ResultErr("HttpError")
                        ELSE ResultOk("url"),
                        IF g.ok
                        THEN [get_c8y_end_point(g.ep, env) EXCEPT
                                  !.requested = @ \/ g.requested,
                                  !.answered = @ \/ g.answered]
                        ELSE g)

upload_config_file(env) ==
    LET g == get_c8y_end_point(end_point, env)
    IN  /\ Callable
        /\ IF ~env.jwt_first
           THEN Returns("upload_config_file", ResultErr("TokenError"), NotReached)
           ELSE Returns("upload_config_file",
                        IF ~g.ok THEN ResultErr(g.err)
                        ELSE IF ~send_event_internal(env).ok THEN send_event_internal(env)
                        ELSE IF ~env.http_upload THEN ResultErr("HttpError")
                        ELSE ResultOk("url"), g)

\* url_host.splitn(2, '.').get(1): what follows the first label, if anything
DomainOf(host) == IF Len(host) >= 2 THEN Some(Tail(host)) ELSE None

\* C8yEndPoint::url_is_in_my_tenant_domain; the url is the host Url::parse
\* finds in it, None if it does not parse or has no host
tenant_domain_check(url) ==
    IF ~url.some THEN FALSE ELSE DomainOf(url.v) = DomainOf(C8yHost)

\* JwtAuthHttpProxy::url_is_in_my_tenant_domain: unwrap_right() on the end point
url_is_in_my_tenant_domain(url) ==
    /\ Callable
    /\ Returns("url_is_in_my_tenant_domain",
               IF ~end_point.right THEN ResultErr("panic")
               ELSE IF tenant_domain_check(url) THEN ResultOk("") ELSE ResultErr("false"),
               NotReached)

Urls == {None, Some(<<"t2", "c8y", "io">>), Some(<<"c8y", "com">>)}

NextProxy ==
    \/ \E env \in Envs : get_jwt_token(env)
    \/ \E env \in Envs : send_event(env)
    \/ \E env \in Envs : send_software_list_http(env)
    \/ \E env \in Envs : upload_log_binary(env)
    \/ \E env \in Envs : upload_config_file(env)
    \/ \E url \in Urls : url_is_in_my_tenant_domain(url)

SpecProxy == Init /\ [][NextProxy]_vars

----------------------------------------------------------------------------
(* crates/core/c8y_api/src/http_proxy.rs: C8yMqttJwtTokenRetriever *)

\* get_jwt_token has returned: the request it published (0 if none), the
\* result, and the request the message it took answers (0 if it took none)
TokenReturns(req, ret, from) ==
    /\ tokens' = Append(tokens, [req |-> req, ret |-> ret, from |-> from])
    /\ waiting' = 0

\* a call may start: none is in progress (&mut self); calls are kept to MaxCalls
MayCall == waiting = 0 /\ Len(tokens) < MaxCalls

\* published.publish(Message::new("c8y/s/uat", "")).await succeeds
get_jwt_token_publish ==
    /\ MayCall
    /\ "published" \notin closed
    /\ published' = published + 1
    /\ cloud' = cloud \cup {published + 1}
    /\ waiting' = published + 1
    /\ UNCHANGED <<fsVars, httpVars, received, closed, tokens>>

\* published.publish(..).await? fails: the error is returned, nothing is sent
get_jwt_token_publish_err ==
    /\ MayCall
    /\ "published" \in closed
    /\ TokenReturns(0, "PublishError", 0)
    /\ UNCHANGED <<fsVars, httpVars, published, cloud, received, closed>>

\* Ok(Some(msg)): received.next() gives the oldest message of the channel;
\* payload_str()? and SmartRestJwtResponse::try_new(..)? fail on a message
\* that is not a token response
get_jwt_token_next ==
    /\ waiting # 0
    /\ received # <<>>
    /\ TokenReturns(waiting, IF Head(received).valid THEN "Ok" ELSE "PayloadError",
                    Head(received).req)
    /\ received' = Tail(received)
    /\ UNCHANGED <<fsVars, httpVars, published, cloud, closed>>

\* Ok(None): the channel is closed and empty
get_jwt_token_none ==
    /\ waiting # 0
    /\ received = <<>>
    /\ "received" \in closed
    /\ TokenReturns(waiting, "InvalidMqttMessage", 0)
    /\ UNCHANGED <<fsVars, httpVars, published, cloud, received, closed>>

\* Err(_elapsed): nothing has come within 10 s
get_jwt_token_elapsed ==
    /\ waiting # 0
    /\ received = <<>>
    /\ "received" \notin closed
    /\ TokenReturns(waiting, "RequestTimeout", 0)
    /\ UNCHANGED <<fsVars, httpVars, published, cloud, received, closed>>

\* Cumulocity answers a request on c8y/s/dat, at any time after it was
\* published; the connection puts the answer into the received channel
Respond(req, valid) ==
    /\ req \in cloud
    /\ "received" \notin closed
    /\ cloud' = cloud \ {req}
    /\ received' = Append(received, [req |-> req, valid |-> valid])
    /\ UNCHANGED <<fsVars, httpVars, published, closed, waiting, tokens>>

\* the connection stops taking messages to publish, or stops delivering
Close(channel) ==
    /\ channel \notin closed
    /\ closed' = closed \cup {channel}
    /\ UNCHANGED <<fsVars, httpVars, published, cloud, received, waiting, tokens>>

NextJwt ==
    \/ get_jwt_token_publish
    \/ get_jwt_token_publish_err
    \/ get_jwt_token_next
    \/ get_jwt_token_none
    \/ get_jwt_token_elapsed
    \/ \E req \in 1..MaxCalls, valid \in BOOLEAN : Respond(req, valid)
    \/ \E channel \in {"published", "received"} : Close(channel)

SpecJwt == Init /\ [][NextJwt]_vars

----------------------------------------------------------------------------
(* Properties *)

\* the items the consumer received for raw item r, in order
YieldsOf(r) == SelectSeq(yielded, LAMBDA it : it.raw = r)

\* the loop body of raw item r has run to its end
Done(r) == r < nproc \/ (r = nproc /\ pc \in {"polling", "errored", "ended"})

Count(seq, x) == Cardinality({i \in DOMAIN seq : seq[i] = x})

\* the (path, kind) pair of a yielded item
Semantic(it) == <<it.ok, it.path, it.mask>>
Event(path, mask) == <<TRUE, path, mask>>

\* a raw event with a text name, and the kind it is translated to
Named(ev) == ~ev.err /\ ev.name.some /\ ToStr(ev.name.v).some

\* the registry holds one target in one directory, registered by one call
OnlyRegistration(d, t) ==
    /\ nAdds = 1
    /\ DOMAIN watchers = {d}
    /\ DOMAIN watchers[d] = {t}

\* C1: a raw event yields events only for registry entries of the directory
\* it was reported against: the directory of every yielded path is the
\* directory of the raw event it comes from.
C1_DirectoryScoped ==
    \A i \in DOMAIN yielded :
        yielded[i].ok =>
            Resolve(PathParent(yielded[i].path).v) = rawlog[yielded[i].raw].wd

EvCreateA == RawEvent("ino_d1", {"CREATE"}, Some("a"))
EvModifyA == RawEvent("ino_d1", {"MODIFY"}, Some("a"))
EvCreateB == RawEvent("ino_d1", {"CREATE"}, Some("b"))
EvModifyB == RawEvent("ino_d1", {"MODIFY"}, Some("b"))

E2ERegistry ==
    [d \in {D1} |-> [f \in {"a", "b"} |-> IF f = "a" THEN Created ELSE CreatedModified]]

\* a is created (and possibly modified), b is created and then modified
E2EScenario(log) ==
    /\ Range(log) \subseteq {EvCreateA, EvModifyA, EvCreateB, EvModifyB}
    /\ Count(log, EvCreateA) <= 1
    /\ Count(log, EvCreateB) <= 1
    /\ Count(log, EvModifyB) <= 1
    /\ \A i \in DOMAIN log : log[i] = EvModifyA => \E j \in 1..(i - 1) : log[j] = EvCreateA
    /\ \A i \in DOMAIN log : log[i] = EvModifyB => \E j \in 1..(i - 1) : log[j] = EvCreateB

ACreated == Event(D1 \o <<"a">>, "Created")
BCreated == Event(D1 \o <<"b">>, "Created")
BModified == Event(D1 \o <<"b">>, "Modified")

\* C2: with (root, a, {Created}) and (root, b, {Created, Modified})
\* registered, whatever raw events creating a and creating then modifying b
\* produce, the stream yields (root/a, Created), (root/b, Created) and
\* (root/b, Modified), each once and once its raw event is processed,
\* (root/b, Created) before (root/b, Modified), and nothing else.
C2_EndToEnd ==
    (watchers = E2ERegistry /\ E2EScenario(rawlog)) =>
        LET sem == [i \in DOMAIN yielded |-> Semantic(yielded[i])]
        IN  /\ Range(sem) \subseteq {ACreated, BCreated, BModified}
            /\ \A e \in {ACreated, BCreated, BModified} : Count(sem, e) <= 1
            /\ \A i, j \in DOMAIN sem : (sem[i] = BCreated /\ sem[j] = BModified) => i < j
            /\ (pc = "polling" /\ nproc = Len(rawlog)) =>
                  /\ ACreated \in Range(sem) <=> EvCreateA \in Range(rawlog)
                  /\ BCreated \in Range(sem) <=> EvCreateB \in Range(rawlog)
                  /\ BModified \in Range(sem) <=> EvModifyB \in Range(rawlog)

C2_Witness ==
    /\ watchers = E2ERegistry
    /\ E2EScenario(rawlog)
    /\ {EvCreateA, EvModifyA, EvCreateB, EvModifyB} \subseteq Range(rawlog)
    /\ pc = "polling"
    /\ nproc = Len(rawlog)
    /\ Len(yielded) = 3

C3Registry(d) == [x \in {d} |-> [f \in {"a", "*"} |-> Created]]

\* C3: with (dir, file_a, {Created}) and (dir, *, {Created}) registered, one
\* raw Created event for file_a in dir yields exactly two events, both
\* (dir/file_a, Created).
C3_DuplicateEmission ==
    \A d \in Dirs : \A r \in 1..nproc :
        (watchers = C3Registry(d)
         /\ rawlog[r] = RawEvent(Resolve(d), {"CREATE"}, Some("a"))) =>
            /\ Range(YieldsOf(r)) \subseteq {Item(d \o <<"a">>, "Created", r)}
            /\ Len(YieldsOf(r)) <= 2
            /\ Done(r) => Len(YieldsOf(r)) = 2

C3_Witness ==
    \E r \in 1..nproc :
        /\ watchers = C3Registry(D1)
        /\ rawlog[r] = RawEvent("ino_d1", {"CREATE"}, Some("a"))
        /\ Done(r)
        /\ YieldsOf(r) = <<Item(D1 \o <<"a">>, "Created", r), Item(D1 \o <<"a">>, "Created", r)>>

\* C4: when the only registration is (dir, t, K) for an exact name t, a raw
\* event (dir, n, k) yields exactly one event (dir/t, k) if n = t and k is
\* in K, and nothing otherwise.
C4_ExactTarget ==
    \A d \in DOMAIN watchers : \A t \in DOMAIN watchers[d] : \A r \in 1..nproc :
        (OnlyRegistration(d, t) /\ t # "*" /\ Named(rawlog[r]) /\ Done(r)
         /\ rawlog[r].wd = Resolve(d)) =>
            LET n == rawlog[r].name.v
                k == MasksFrom(rawlog[r].mask)
            IN  YieldsOf(r) = IF n = t /\ k \in Range(watchers[d][t])
                              THEN <<Item(d \o <<t>>, k, r)>> ELSE <<>>

\* exact-target matching for a kind list without repetition
ExactTargetDistinctKinds ==
    \A d \in DOMAIN watchers : \A t \in DOMAIN watchers[d] : \A r \in 1..nproc :
        (OnlyRegistration(d, t) /\ t # "*" /\ Named(rawlog[r]) /\ Done(r)
         /\ rawlog[r].wd = Resolve(d)
         /\ Len(watchers[d][t]) = Cardinality(Range(watchers[d][t]))) =>
            LET n == rawlog[r].name.v
                k == MasksFrom(rawlog[r].mask)
            IN  YieldsOf(r) = IF n = t /\ k \in Range(watchers[d][t])
                              THEN <<Item(d \o <<t>>, k, r)>> ELSE <<>>

\* C5: when the only registration is (dir, *, K), a raw event (dir, n, k)
\* yields exactly one event (dir/n, k) if k is in K, and nothing otherwise.
C5_Wildcard ==
    \A d \in DOMAIN watchers : \A r \in 1..nproc :
        (OnlyRegistration(d, "*") /\ Named(rawlog[r]) /\ Done(r)
         /\ rawlog[r].wd = Resolve(d)) =>
            LET n == rawlog[r].name.v
                k == MasksFrom(rawlog[r].mask)
            IN  YieldsOf(r) = IF k \in Range(watchers[d]["*"])
                              THEN <<Item(d \o <<n>>, k, r)>> ELSE <<>>

\* wildcard matching for a kind list without repetition
WildcardDistinctKinds ==
    \A d \in DOMAIN watchers : \A r \in 1..nproc :
        (OnlyRegistration(d, "*") /\ Named(rawlog[r]) /\ Done(r)
         /\ rawlog[r].wd = Resolve(d)
         /\ Len(watchers[d]["*"]) = Cardinality(Range(watchers[d]["*"]))) =>
            LET n == rawlog[r].name.v
                k == MasksFrom(rawlog[r].mask)
            IN  YieldsOf(r) = IF k \in Range(watchers[d]["*"])
                              THEN <<Item(d \o <<n>>, k, r)>> ELSE <<>>

\* the watch mask inotify holds for the directory a path names
EffectiveMask(path) == IF Resolve(path) = NoInode THEN {} ELSE osMask[Resolve(path)]

\* the kinds registered for a directory, over all its targets
KindsOf(d) == UNION {Range(watchers[d][f]) : f \in DOMAIN watchers[d]}

\* C6: after an add_watcher call that returned Ok, the watch mask of the
\* normalized directory is the union of the kinds of all its targets.
C6_EffectiveMaskIsUnion ==
    lastAdd.ret = "Ok" =>
        EffectiveMask(lastAdd.dir) = UNION {WatchMaskFrom(k) : k \in KindsOf(lastAdd.dir)}

\* C7: no add_watcher call narrows the watch mask of a directory, and the
\* mask of a watched directory covers every kind asked for in it.
C7_NeverNarrows ==
    /\ [][\A i \in Inodes : osMask[i] \subseteq osMask'[i]]_vars
    /\ [](\A d \in DOMAIN watchers :
            EffectiveMask(d) # {} =>
                UNION {WatchMaskFrom(k) : k \in KindsOf(d)} \subseteq EffectiveMask(d))

\* C8: get_mask_set_for_directory is None for a directory without entry,
\* and otherwise holds each kind registered for a target of that directory
\* once and no other kind; Created on a and Created+Modified on b give
\* exactly Modified and Created.
C8_UnionOfKinds ==
    \A d \in RegDirs :
        LET res == get_mask_set_for_directory(watchers, d)
        IN  IF d \notin DOMAIN watchers THEN ~res.some
            ELSE /\ res.some
                 /\ \A k \in Masks :
                       Count(res.v, k) =
                          IF \E f \in DOMAIN watchers[d] : \E i \in DOMAIN watchers[d][f] :
                                watchers[d][f][i] = k
                          THEN 1 ELSE 0
                 /\ watchers[d] = E2ERegistry[D1] => res.v = <<"Modified", "Created">>

C8_Witness ==
    /\ DOMAIN watchers = {D1, D2}
    /\ watchers[D1] = E2ERegistry[D1]
    /\ "Deleted" \in KindsOf(D2)
    /\ get_mask_set_for_directory(watchers, D1) = Some(<<"Modified", "Created">>)
    /\ ~get_mask_set_for_directory(watchers, Missing).some

\* C9: the kinds stored for a (directory, target) pair hold no kind twice.
C9_TrueSet ==
    \A d \in DOMAIN watchers : \A f \in DOMAIN watchers[d] :
        Len(watchers[d][f]) = Cardinality(Range(watchers[d][f]))

\* the events the registry asks for on a raw event, directory by directory
Asked(ev, r) ==
    {Item(d \o <<IF f = "*" THEN ev.name.v ELSE f>>, MasksFrom(ev.mask), r) :
        <<d, f>> \in {df \in UNION {{<<d, f>> : f \in DOMAIN watchers[d]} : d \in DOMAIN watchers} :
                        /\ Resolve(df[1]) = ev.wd
                        /\ df[2] \in {ev.name.v, "*"}
                        /\ MasksFrom(ev.mask) \in Range(watchers[df[1]][df[2]])}}

\* C10: an I/O error of the raw stream is yielded once, as the last item:
\* the stream has ended, nothing is yielded or polled after it, and every
\* event of the raw events before it was yielded before it.
C10_ErrorEndsStream ==
    \A i \in DOMAIN yielded :
        (~yielded[i].ok /\ yielded[i].raw > 0) =>
            /\ i = Len(yielded)
            /\ pc \in {"errored", "ended"}
            /\ pending = <<>>
            /\ nproc = yielded[i].raw
            /\ \A r \in 1..(yielded[i].raw - 1) :
                  Named(rawlog[r]) => Asked(rawlog[r], r) \subseteq Range(SubSeq(yielded, 1, i - 1))

C10_Witness ==
    /\ Len(yielded) >= 2
    /\ yielded[1].ok
    /\ yielded[Len(yielded)] = IOError(nproc)
    /\ pc = "ended"

IsAbsolute(p) == p # <<>> /\ Head(p) = "/"

\* the concatenated path has no parent, no final name, or a final name
\* that is not text
NormFails(full) == full = <<>> \/ Last(full) \in {"/", "..", NonText}

\* the path a call asks for: directory joined with the file specification
Requested(c) == IF IsAbsolute(c[2]) THEN c[2] ELSE c[1] \o c[2]

\* the watch mask of the kinds a registry holds for a directory
MaskOfKinds(description, d) ==
    UNION {WatchMaskFrom(k) : k \in UNION {Range(description[d][f]) : f \in DOMAIN description[d]}}

\* C11: add_watcher returns an error only if normalisation fails: a call
\* whose normalisation succeeds returns Ok, also when the OS registration
\* fails, and the registry then holds the new interest.
C11_ErrorOnlyFromNormalising ==
    [][calls' # calls =>
        LET c == calls'[Len(calls')]
            full == Requested(c)
        IN  /\ lastAdd'.ret # "Ok" => NormFails(full)
            /\ ~NormFails(full) =>
                 /\ Front(full) \in DOMAIN watchers'
                 /\ Last(full) \in DOMAIN watchers'[Front(full)]
                 /\ Range(c[3]) \subseteq Range(watchers'[Front(full)][Last(full)])]_vars

C11_Witness ==
    /\ lastAdd.ret = "Ok"
    /\ Resolve(lastAdd.dir) = NoInode
    /\ lastAdd.dir \in DOMAIN watchers
    /\ calls[Len(calls)] = <<D1, <<"nx", "a">>, Created>>
    /\ watchers[lastAdd.dir]["a"] = Created
    /\ \A i \in Inodes : osMask[i] = {}

\* C12: add_watcher fails with the normalisation error exactly when the
\* concatenated path has no parent, no final name or a final name that is
\* not text, and then leaves the registry and the OS watches unchanged.
C12_NormalisingFailure ==
    [][calls' # calls =>
        LET c == calls'[Len(calls')]
            full == Requested(c)
        IN  /\ lastAdd'.ret = "ErrorNormalisingWatcher" <=> NormFails(full)
            /\ NormFails(full) => (watchers' = watchers /\ osMask' = osMask)]_vars

C12_Witness ==
    /\ Len(calls) = 2
    /\ calls[2][1] = Root
    /\ calls[2][2] = <<>>
    /\ lastAdd.ret = "ErrorNormalisingWatcher"
    /\ DOMAIN watchers = {D1}
    /\ osMask["ino_d1"] = {"CREATE"}

\* C13: for a relative file specification the registry key and the OS
\* watch are placed on the parent of the concatenated path and the target
\* is its final component: sub/a under /d1 is registered on /d1/sub with
\* target a, sub/* with target *.
C13_NormalisedPlacement ==
    [][calls' # calls =>
        LET c == calls'[Len(calls')]
            full == c[1] \o c[2]
            key == Front(full)
        IN  (~IsAbsolute(c[2]) /\ ~NormFails(full)) =>
              /\ lastAdd'.dir = key
              /\ DOMAIN watchers' = DOMAIN watchers \cup {key}
              /\ DOMAIN watchers'[key] =
                    (IF key \in DOMAIN watchers THEN DOMAIN watchers[key] ELSE {})
                    \cup {Last(full)}
              /\ \A i \in Inodes :
                    osMask'[i] =
                       IF i = Resolve(key) /\ MaskOfKinds(watchers', key) # {}
                       THEN MaskOfKinds(watchers', key) ELSE osMask[i]]_vars

C13_Witness ==
    /\ DOMAIN watchers = {D1 \o <<"sub">>}
    /\ DOMAIN watchers[D1 \o <<"sub">>] = {"a", "*"}
    /\ calls[1][1] = D1
    /\ calls[2][1] = D1
    /\ osMask["ino_sub"] # {}
    /\ osMask["ino_d1"] = {}

C15_AppendOnly ==
    [][\A d \in DOMAIN watchers :
          /\ d \in DOMAIN watchers'
          /\ \A f \in DOMAIN watchers[d] :
                /\ f \in DOMAIN watchers'[d]
                /\ Range(watchers[d][f]) \subseteq Range(watchers'[d][f])]_vars

C15_Witness ==
    /\ Len(calls) = 3
    /\ DOMAIN watchers = {D1}
    /\ DOMAIN watchers[D1] = {"a", "b"}
    /\ watchers[D1]["a"] = <<"Created", "Deleted">>
    /\ calls[3][2] = <<"a">>

\* the inserts of a sequence of calls, one after the other
RECURSIVE InsertAll(_, _)
InsertAll(description, cs) ==
    IF cs = <<>> THEN description
    ELSE LET n == normalising_watch_dir_and_file(Head(cs)[1], Head(cs)[2])
         IN  InsertAll(insert(description, n.dir, n.file, Head(cs)[3]), Tail(cs))

Reordered(p) == [i \in DOMAIN calls |-> calls[p[i]]]

\* directories, targets per directory and set of kinds per target
Content(description) ==
    [d \in DOMAIN description |->
        [f \in DOMAIN description[d] |-> Range(description[d][f])]]

\* C16: every ordering of the same inserts gives a registry with the same
\* directories, the same targets per directory and the same set of kinds
\* per target, and the same union of kinds for every directory.
C16_OrderIndependent ==
    \A p \in Perms(DOMAIN calls) :
        LET w == InsertAll(EmptyMap, Reordered(p))
        IN  /\ Content(w) = Content(watchers)
            /\ \A d \in DOMAIN watchers :
                  get_mask_set_for_directory(w, d) = get_mask_set_for_directory(watchers, d)

C16_Witness ==
    /\ Len(calls) = 3
    /\ DOMAIN watchers = {D1, D2}
    /\ watchers[D1]["a"] = <<"Created", "Deleted">>
    /\ \E p \in Perms(DOMAIN calls) :
          InsertAll(EmptyMap, Reordered(p))[D1]["a"] = <<"Deleted", "Created">>

\* C17: semantic events are yielded in the order in which their raw events
\* were reported: every item of an earlier raw event is yielded before
\* every item of a later one.
C17_RawOrder ==
    \A i, j \in DOMAIN yielded :
        i < j => /\ yielded[i].raw <= yielded[j].raw
                 /\ yielded[j].raw <= nproc

C17_Witness ==
    /\ Len(yielded) = 3
    /\ yielded[1].ok /\ yielded[1].raw = 1
    /\ yielded[2].ok /\ yielded[2].raw = 1
    /\ yielded[3].ok /\ yielded[3].raw = 2

\* a raw event with a name that is not text
NonTextNamed(ev) == ~ev.err /\ ev.name.some /\ ~ToStr(ev.name.v).some

\* C18: a raw event whose file name is not text ends the stream: its one
\* and only item is an error, which is the last item, and no later raw
\* event is processed.
C18_NonTextNameIsFatal ==
    \A r \in 1..nproc :
        NonTextNamed(rawlog[r]) =>
            /\ r = nproc
            /\ pc \in {"yielding", "errored", "ended"}
            /\ pc = "yielding" => (pending = <<StreamError(r)>> /\ YieldsOf(r) = <<>>)
            /\ pc \in {"errored", "ended"} =>
                  /\ YieldsOf(r) = <<StreamError(r)>>
                  /\ yielded[Len(yielded)] = StreamError(r)
                  /\ pending = <<>>

C18_Witness ==
    /\ Len(rawlog) = 2
    /\ NonTextNamed(rawlog[1])
    /\ Named(rawlog[2])
    /\ D1 \in DOMAIN watchers
    /\ "*" \in DOMAIN watchers[D1]
    /\ pc = "ended"
    /\ yielded = <<StreamError(1)>>

\* C19: a raw event without a file name yields nothing, whatever the
\* registry holds, and the stream goes on polling after it.
C19_NoNameNoEvent ==
    \A r \in 1..nproc :
        (~rawlog[r].err /\ ~rawlog[r].name.some) =>
            /\ YieldsOf(r) = <<>>
            /\ r = nproc => (pc = "polling" /\ pending = <<>>)

C19_Witness ==
    /\ Len(rawlog) = 2
    /\ ~rawlog[1].err /\ ~rawlog[1].name.some
    /\ rawlog[1].wd = "ino_d1"
    /\ D1 \in DOMAIN watchers
    /\ "*" \in DOMAIN watchers[D1]
    /\ nproc = 2
    /\ yielded = <<Item(D1 \o <<"a">>, "Created", 2)>>

\* the items asked for by the registrations whose target is the name or
\* the wildcard and whose kinds hold Undefined
UndefinedAsked(ev, r) ==
    {Item(df[1] \o <<ev.name.v>>, "Undefined", r) :
        df \in {x \in UNION {{<<d, f>> : f \in DOMAIN watchers[d]} : d \in DOMAIN watchers} :
                  /\ x[2] \in {ev.name.v, "*"}
                  /\ "Undefined" \in Range(watchers[x[1]][x[2]])}}

\* C20: a raw event whose mask is none of CREATE, MODIFY, DELETE is
\* translated to Undefined and matched like any other: it yields
\* (path, Undefined) for each registration of its name or of the wildcard
\* whose kinds hold Undefined, nothing else, and the stream goes on.
C20_UndefinedTranslation ==
    \A r \in 1..nproc :
        (Named(rawlog[r]) /\ rawlog[r].mask \notin {{"CREATE"}, {"MODIFY"}, {"DELETE"}}) =>
            /\ Range(YieldsOf(r)) \subseteq UndefinedAsked(rawlog[r], r)
            /\ Done(r) => Range(YieldsOf(r)) = UndefinedAsked(rawlog[r], r)
            /\ (r = nproc /\ pc # "yielding") => pc = "polling"

C20_Witness ==
    /\ Len(rawlog) = 2
    /\ rawlog[1] = RawEvent("ino_d1", {"CREATE", "ISDIR"}, Some("a"))
    /\ DOMAIN watchers = {D1}
    /\ DOMAIN watchers[D1] = {"a", "*"}
    /\ watchers[D1]["a"] = <<"Undefined">>
    /\ watchers[D1]["*"] = <<"Created">>
    /\ nproc = 2
    /\ yielded = <<Item(D1 \o <<"a">>, "Undefined", 1), Item(D1 \o <<"a">>, "Created", 2)>>

\* the stream exists: stream() has been called on the NotifyStream
Streaming == pc \in {"polling", "yielding", "errored", "ended", "dropped"}

\* C21: once the stream is created the registry is frozen: no add_watcher
\* call and no second stream() happen, no step of the stream changes the
\* registry, and the stream iterates over exactly the registry built by
\* the calls made before stream().
C21_FrozenRegistry ==
    /\ [][Streaming =>
            /\ watchers' = watchers
            /\ calls' = calls
            /\ dirOrder' = dirOrder
            /\ fileOrder' = fileOrder
            /\ Streaming']_vars
    /\ [](Streaming =>
            /\ Content(watchers) = Content(InsertAll(EmptyMap, calls))
            /\ Range(dirOrder) = DOMAIN watchers
            /\ \A d \in DOMAIN watchers : Range(fileOrder[d]) = DOMAIN watchers[d])

C21_Witness ==
    /\ pc = "polling"
    /\ nAdds = 2
    /\ Len(calls) = 2
    /\ nproc = 2
    /\ Len(yielded) >= 2
    /\ yielded[1].raw = 1
    /\ yielded[Len(yielded)].raw = 2

\* C22: fs_notify_stream takes the triples in list order and returns the
\* error of Inotify::init, or the error of the first triple whose
\* add_watcher fails, with no later triple processed and no stream, or a
\* stream whose registry is the one add_watcher builds from all triples.
C22_WatchMany ==
    /\ Len(calls) <= Len(input.v)
    /\ calls = SubSeq(input.v, 1, Len(calls))
    /\ \A i \in 1..(Len(calls) - 1) : ~NormFails(Requested(calls[i]))
    /\ pc = "failed" <=> returned \in {"FromIOError", "ErrorNormalisingWatcher"}
    /\ Streaming <=> returned = "Ok"
    /\ returned = "FromIOError" => (calls = <<>> /\ watchers = EmptyMap)
    /\ returned = "ErrorNormalisingWatcher" =>
          /\ calls # <<>>
          /\ NormFails(Requested(calls[Len(calls)]))
          /\ watchers = InsertAll(EmptyMap, SubSeq(calls, 1, Len(calls) - 1))
    /\ pc = "failed" => (dirOrder = <<>> /\ yielded = <<>> /\ nproc = 0)
    /\ returned = "Ok" =>
          /\ calls = input.v
          /\ \A i \in DOMAIN calls : ~NormFails(Requested(calls[i]))
          /\ watchers = InsertAll(EmptyMap, input.v)

C22_Witness ==
    /\ returned = "ErrorNormalisingWatcher"
    /\ Len(input.v) = 2
    /\ Len(calls) = 1
    /\ ~NormFails(Requested(input.v[2]))
    /\ pc = "failed"

\* C24: the stream owns the inotify session: the session is open as long
\* as the stream can still be polled for an item, and it is released when
\* the consumer has dropped the stream or the stream has ended after an
\* error; no state has a dropped or ended stream with an open session.
C24_SessionReleased ==
    /\ pc \in {"ended", "dropped"} => fdOwners = {}
    /\ pc \in {"polling", "yielding", "errored"} => "inotify" \in fdOwners

C24_Witness ==
    /\ pc = "ended"
    /\ fdOwners = {}
    /\ yielded # <<>>
    /\ ~yielded[Len(yielded)].ok
    /\ yielded[Len(yielded)].raw > 0

\* raw item r is an event with a text name that a registration of its
\* directory asks for, and the stream is there to be polled
MatchedEvent(r) ==
    IF r > Len(rawlog) THEN FALSE
    ELSE IF ~Named(rawlog[r]) THEN FALSE
    ELSE pc \in {"polling", "yielding"} /\ Asked(rawlog[r], r) # {}

\* the events asked for raw item r have been yielded
Delivered(r) ==
    IF r > Len(rawlog) THEN FALSE
    ELSE IF ~Named(rawlog[r]) THEN FALSE
    ELSE Asked(rawlog[r], r) \subseteq Range(yielded)

\* C23: if the consumer keeps polling, a reported raw event that matches a
\* registration of its directory (exact name or wildcard, kind in the
\* kinds) leads to its event being yielded, unless the stream has stopped
\* on an error before.
C23_Delivery ==
    \A r \in 1..MaxRaw :
        MatchedEvent(r) ~> (Delivered(r) \/ pc \in {"errored", "ended"})

C23_Witness ==
    /\ Len(rawlog) = 2
    /\ nproc = 2
    /\ pc = "polling"
    /\ Named(rawlog[2])
    /\ rawlog[2].wd = "ino_d1"
    /\ Asked(rawlog[2], 2) # {}
    /\ Delivered(2)
    /\ Len(YieldsOf(2)) = 2

\* C25: Created, Modified and Deleted each convert to one bit of the watch
\* mask, the three bits differ, and that bit alone as an event mask
\* translates back to the kind; Undefined converts to the empty mask, which
\* translates back to Undefined; an event reported with exactly the bit a
\* kind was registered with is yielded with that kind.
C25_RoundTrip ==
    /\ \A k \in {"Created", "Modified", "Deleted"} :
          /\ Cardinality(WatchMaskFrom(k)) = 1
          /\ MasksFrom(WatchMaskFrom(k)) = k
          /\ \A k2 \in {"Created", "Modified", "Deleted"} :
                k2 # k => WatchMaskFrom(k2) # WatchMaskFrom(k)
    /\ WatchMaskFrom("Undefined") = {}
    /\ MasksFrom({}) = "Undefined"
    /\ \A i \in DOMAIN yielded :
          yielded[i].ok =>
             \A k \in Masks :
                rawlog[yielded[i].raw].mask = WatchMaskFrom(k) => yielded[i].mask = k

C25_Witness ==
    /\ DOMAIN watchers = {D1}
    /\ DOMAIN watchers[D1] = {"a"}
    /\ watchers[D1]["a"] = CreatedModified
    /\ osMask["ino_d1"] = WatchMaskFrom("Created") \cup WatchMaskFrom("Modified")
    /\ Len(rawlog) = 2
    /\ rawlog[1].mask = WatchMaskFrom("Modified")
    /\ rawlog[2].mask = WatchMaskFrom("Created")
    /\ yielded = <<Item(D1 \o <<"a">>, "Modified", 1), Item(D1 \o <<"a">>, "Created", 2)>>

\* C26: every event the stream yields is justified by a registration
\* (d, t, K) with the event's kind in K, where t is the raw event's file
\* name and the path is d/t, or t is "*" and the path is d/file name.
C26_Soundness ==
    \A i \in DOMAIN yielded :
        yielded[i].ok =>
            /\ yielded[i].raw \in 1..nproc
            /\ Named(rawlog[yielded[i].raw])
            /\ \E d \in DOMAIN watchers :
               \E t \in DOMAIN watchers[d] :
                  /\ yielded[i].mask \in Range(watchers[d][t])
                  /\ \/ /\ t = rawlog[yielded[i].raw].name.v
                        /\ yielded[i].path = d \o <<t>>
                     \/ /\ t = "*"
                        /\ yielded[i].path = d \o <<rawlog[yielded[i].raw].name.v>>

C26_Witness ==
    /\ DOMAIN watchers = {D1, D2}
    /\ DOMAIN watchers[D1] = {"a"}
    /\ DOMAIN watchers[D2] = {"*"}
    /\ Len(rawlog) = 2
    /\ rawlog[1] = RawEvent("ino_d1", {"CREATE"}, Some("a"))
    /\ rawlog[2] = RawEvent("ino_d2", {"CREATE"}, Some("b"))
    /\ nproc = 2
    /\ pc = "polling"
    /\ Item(D1 \o <<"a">>, "Created", 1) \in Range(yielded)
    /\ Item(D2 \o <<"b">>, "Created", 2) \in Range(yielded)

\* C27: an event is yielded as Created, Modified or Deleted only if its raw
\* mask is exactly the CREATE, MODIFY or DELETE bit; a raw mask with a
\* further bit (CREATE with the is-directory flag) is Undefined and fires
\* no registration for Created, Modified or Deleted.
C27_ExactBit ==
    \A i \in DOMAIN yielded :
        yielded[i].ok =>
            /\ yielded[i].mask = "Created" => rawlog[yielded[i].raw].mask = {"CREATE"}
            /\ yielded[i].mask = "Modified" => rawlog[yielded[i].raw].mask = {"MODIFY"}
            /\ yielded[i].mask = "Deleted" => rawlog[yielded[i].raw].mask = {"DELETE"}
            /\ Cardinality(rawlog[yielded[i].raw].mask) > 1 => yielded[i].mask = "Undefined"

C27_Witness ==
    /\ DOMAIN watchers = {D1}
    /\ DOMAIN watchers[D1] = {"a"}
    /\ watchers[D1]["a"] = Created
    /\ rawlog = <<RawEvent("ino_d1", {"CREATE", "ISDIR"}, Some("a")),
                  RawEvent("ino_d1", {"CREATE"}, Some("a"))>>
    /\ nproc = 2
    /\ pc = "polling"
    /\ yielded = <<Item(D1 \o <<"a">>, "Created", 2)>>

\* C28: add_watcher never panics: after the insert the union lookup for
\* the normalised directory is Some for every registry and every input,
\* an empty kinds list included.
C28_NeverPanics ==
    /\ pc # "panicked"
    /\ lastAdd.ret \in {"none", "Ok", "ErrorNormalisingWatcher"}
    /\ \A d \in DOMAIN watchers : get_mask_set_for_directory(watchers, d).some

C28_Witness ==
    /\ Len(calls) = 2
    /\ calls[1] = <<D1, <<"a">>, Created>>
    /\ calls[2] = <<D1, <<"sub", "a">>, <<>>>>
    /\ lastAdd.ret = "Ok"
    /\ DOMAIN watchers = {D1, D1 \o <<"sub">>}
    /\ watchers[D1 \o <<"sub">>]["a"] = <<>>
    /\ get_mask_set_for_directory(watchers, D1 \o <<"sub">>) = Some(<<>>)

\* the operation the last step logged
LastOp == ops[Len(ops)]

\* C29: the end point starts uninitialised; it becomes initialised only in an
\* operation whose internal id request succeeded; an operation whose internal
\* id request failed returns FailedToRetrieveC8yInternalId and leaves the end
\* point uninitialised, and the next operation that needs the end point asks
\* again; once initialised the end point never changes and no operation asks
\* for the internal id again
C29_LazyInit ==
    /\ [](ops = <<>> => end_point = Left /\ idRequests = 0)
    /\ [][LET o == LastOp'
          IN  /\ o.before = end_point
              /\ o.requested <=> idRequests' = idRequests + 1
              /\ ~o.requested => idRequests' = idRequests
              /\ (~end_point.right /\ end_point'.right)
                     => (o.requested /\ o.answered
                         /\ end_point'.c8y_internal_id \in InternalIds)
              /\ (o.requested /\ ~o.answered)
                     => (o.ret = "FailedToRetrieveC8yInternalId" /\ end_point' = Left)
              /\ o.ret = "FailedToRetrieveC8yInternalId"
                     => (o.requested /\ ~o.answered /\ end_point' = Left)
              /\ (~end_point.right
                  /\ o.op \in {"send_event", "send_software_list_http"})
                     => o.requested
              /\ end_point.right
                     => (end_point' = end_point /\ ~o.requested)]_vars

\* a first operation fails to get the internal id, the second one asks again
\* and initialises the end point, the third one finds it initialised
C29_Witness ==
    /\ Len(ops) = 3
    /\ ops[1].ret = "FailedToRetrieveC8yInternalId"
    /\ ~ops[2].before.right /\ ops[2].requested /\ ops[2].answered
    /\ ops[3].before.right /\ ~ops[3].requested /\ ops[3].ret = "Ok"
    /\ ops[3].op \in {"send_event", "upload_log_binary"}
    /\ end_point = ops[3].before
    /\ idRequests = 2

\* C30: whenever url_is_in_my_tenant_domain is called the end point is
\* initialised, so that the call never panics
C30_NeverPanics ==
    \A i \in 1..Len(ops) :
        ops[i].op = "url_is_in_my_tenant_domain"
            => (ops[i].before.right /\ ops[i].ret # "panic")

\* C31: a get_jwt_token call returns a token only from the answer to the
\* request it published itself, never from the answer to the request of an
\* earlier call that has timed out
C31_Pairing ==
    \A i \in 1..Len(tokens) :
        tokens[i].ret = "Ok" => tokens[i].from = tokens[i].req

====
